---- MODULE Spec2Model ----
(***************************************************************************)
(* debian_bridge: the program registry (Config), the features list, the    *)
(* application facade (App: create / remove / run / list / save) and the   *)
(* command line entry point (main: load, one operation, save).             *)
(***************************************************************************)
EXTENDS Integers, Sequences, FiniteSets, TLC

(* ------------------------------------------------------------------ *)
(* Bounds of the model                                                *)
(* ------------------------------------------------------------------ *)

\* number of distinct packages (and so program names) the user may install
NumPackages == 2

\* number of calls one process makes to its App
MaxOps == 3

\* number of calls made to a Config taken alone
MaxConfigOps == 5

\* number of times the program is run
MaxRuns == 3

(* ------------------------------------------------------------------ *)
(* Values                                                             *)
(* ------------------------------------------------------------------ *)

\* package names as read from the control file of the .deb (Deb::package)
PackagePool == <<"foo", "bar", "baz", "qux">>

\* the path of the artifact of each package
PathPool == <<"foo.deb", "bar.deb", "baz.deb", "qux.deb">>

Packages == 1 .. NumPackages

Names == {PackagePool[i] : i \in Packages}

\* enum Feature
Feature == {"Display", "Sound", "Notification", "Devices", "HomePersistent", "Time"}

\* Option<T>: None is the empty sequence, Some(v) the sequence <<v>>
None == << >>

Some(v) == <<v>>

\* struct Icon
Icon(path) == [path |-> path]

\* what a caller may ask App::create for, besides the package: the settings,
\* the icon, the command and the dependencies
Profiles ==
    {[settings |-> << >>, icon |-> None, cmd |-> None, deps |-> None],
     [settings |-> <<"Display">>, icon |-> Some(Icon("app.ico")),
      cmd |-> Some("run.sh"), deps |-> None],
     [settings |-> <<"Time", "Sound">>, icon |-> Some(Icon("app.ico")),
      cmd |-> None, deps |-> Some("libfoo")]}

(* ------------------------------------------------------------------ *)
(* AppResult / AppError                                               *)
(* ------------------------------------------------------------------ *)

\* the status docker answers for a container or image it does not know
StatusNotFound == 404

\* a status docker answers for a failure of the daemon
StatusServerError == 500

Ok == [kind |-> "Ok", msg |-> "", status |-> 0]

\* AppError::Program(msg)
ErrProgram(msg) == [kind |-> "Program", msg |-> msg, status |-> 0]

\* AppError::File(msg)
ErrFile(msg) == [kind |-> "File", msg |-> msg, status |-> 0]

\* AppError::DockerStatus(code)
ErrDockerStatus(code) == [kind |-> "DockerStatus", msg |-> "", status |-> code]

\* any other error of the docker facade
ErrDocker(msg) == [kind |-> "Docker", msg |-> msg, status |-> 0]

\* the error of Deb::try_new
ErrDeb == [kind |-> "Deb", msg |-> "can't read the package", status |-> 0]

\* the error of util::gen_dockerfile
ErrGen == [kind |-> "Gen", msg |-> "can't generate the dockerfile", status |-> 0]

ErrUnavailableFeature == ErrProgram("You have set unavailable feature")

ErrAlreadyExists == ErrProgram("Program with such name already exists")

ErrCantFind == ErrProgram("Can't find a program")

ErrDoesntExist == ErrProgram("Input program doesn't exist")

ErrNotFound == ErrProgram("Program not found")

(* ------------------------------------------------------------------ *)
(* Program                                                            *)
(* ------------------------------------------------------------------ *)

\* Program::new: the command defaults to the name
ProgramNew(name, path, settings, icon, cmd, deps) ==
    [name |-> name,
     path |-> path,
     settings |-> settings,
     icon |-> icon,
     command |-> IF cmd = None THEN name ELSE cmd[1],
     deps |-> deps]

\* Program::get_name_short
GetNameShort(program) == program.name

\* every program a caller can build for the packages of the model
Programs ==
    {ProgramNew(PackagePool[i], PathPool[i], p.settings, p.icon, p.cmd, p.deps) :
        i \in Packages, p \in Profiles}

\* a program value that stands for "no program" in the record of the last call
NoProgram == ProgramNew("", "", << >>, None, None, None)

\* the program a lookup by name alone is recorded with
Named(name) == ProgramNew(name, "", << >>, None, None, None)

(* ------------------------------------------------------------------ *)
(* Config: the registry of programs                                   *)
(* ------------------------------------------------------------------ *)

\* the names of the programs of a registry, in registry order
NamesOf(programs) == [i \in 1 .. Len(programs) |-> programs[i].name]

HasName(programs, name) == \E i \in 1 .. Len(programs) : programs[i].name = name

\* Config::find: the first program of that name and its index, or None
Find(programs, name) ==
    IF HasName(programs, name)
    THEN LET idx == CHOOSE i \in 1 .. Len(programs) :
                        /\ programs[i].name = name
                        /\ \A j \in 1 .. i - 1 : programs[j].name # name
         IN Some([program |-> programs[idx], idx |-> idx])
    ELSE None

\* a removal that takes the first element out, whatever the index
VecRemoveHead(s, idx) == Tail(s)

\* Vec::remove(idx)
VecRemove(s, idx) == [i \in 1 .. Len(s) - 1 |-> IF i < idx THEN s[i] ELSE s[i + 1]]

\* a push that does not look for the name first
ConfigPushUnchecked(programs, program) ==
    [res |-> Ok, programs |-> Append(programs, program)]

\* a push that takes the place of the program of the same name
ConfigPushOverwrite(programs, program) ==
    [res |-> Ok,
     programs |->
        IF HasName(programs, program.name)
        THEN [i \in 1 .. Len(programs) |->
                 IF programs[i].name = program.name THEN program ELSE programs[i]]
        ELSE Append(programs, program)]

\* Config::push
ConfigPush(programs, program) ==
    IF \E i \in 1 .. Len(programs) : programs[i].name = program.name
    THEN [res |-> ErrAlreadyExists, programs |-> programs]
    ELSE [res |-> Ok, programs |-> Append(programs, program)]

\* a remove that empties the registry
ConfigRemoveClears(programs, program) ==
    IF HasName(programs, program.name)
    THEN [res |-> Ok, programs |-> << >>]
    ELSE [res |-> ErrCantFind, programs |-> programs]

\* Config::remove
ConfigRemove(programs, program) ==
    LET found == Find(programs, program.name)
    IN IF found = None
       THEN [res |-> ErrCantFind, programs |-> programs]
       ELSE [res |-> Ok, programs |-> VecRemove(programs, found[1].idx)]

\* Config::clear
ConfigClear(programs) == << >>

(* ------------------------------------------------------------------ *)
(* FeaturesList                                                       *)
(* ------------------------------------------------------------------ *)

\* System: whether a window manager (wm) and a sound driver (sd) were found
Systems == {[wm |-> TRUE, sd |-> FALSE], [wm |-> FALSE, sd |-> TRUE]}

\* FeaturesList::new
FeaturesListNew(system) ==
    [f \in Feature |->
        CASE f = "Display" -> system.wm
          [] f = "Sound" -> system.sd
          [] OTHER -> TRUE]

\* a validation that looks at the first setting only
ValidateFirstOnly(list, settings) == settings = << >> \/ list[settings[1]]

\* a validation that accepts every request
ValidateNothing(list, settings) == TRUE

\* a validation that is content with one available setting
ValidateSome(list, settings) ==
    settings = << >> \/ \E i \in 1 .. Len(settings) : list[settings[i]]

\* Iterator::try_for_each over the settings: it stops with Err(()) at the
\* first setting that the list does not hold or holds as false
RECURSIVE TryForEach(_, _)
TryForEach(list, settings) ==
    IF settings = << >> THEN TRUE
    ELSE IF Head(settings) \notin DOMAIN list THEN FALSE
    ELSE IF ~list[Head(settings)] THEN FALSE
    ELSE TryForEach(list, Tail(settings))

\* FeaturesList::validate
Validate(list, settings) == TryForEach(list, settings)

(* ------------------------------------------------------------------ *)
(* The collaborators of App, as App sees them                         *)
(* ------------------------------------------------------------------ *)

\* one call to a collaborator (deb, the file system, docker) and its answer
Call(name, arg, res) == [call |-> name, arg |-> arg, res |-> res]

\* the calls of a trace to the collaborator called `name`
CallsTo(tr, name) == {i \in 1 .. Len(tr) : tr[i].call = name}

\* the two files App::create puts in the cache directory
TmpDeb == "tmp.deb"

Dockerfile == "Dockerfile"

\* the step of App::create that fails, if one does
CreateFailPoints ==
    {"none", "deb", "mkdir", "copy", "gen", "write", "build", "rmDockerfile", "rmTmp"}

\* what the collaborators answer during one App::create: the step that fails,
\* whether a failed copy or write leaves a partial file, and whether the
\* desktop entry can be written
CreateOutcomes ==
    {[fail |-> f, partial |-> FALSE, entry |-> TRUE] : f \in CreateFailPoints}
    \cup {[fail |-> f, partial |-> TRUE, entry |-> TRUE] : f \in {"copy", "write"}}
    \cup {[fail |-> "none", partial |-> FALSE, entry |-> FALSE]}

\* what docker answers to a delete
DeleteAnswers ==
    {Ok, ErrDockerStatus(StatusNotFound), ErrDockerStatus(StatusServerError),
     ErrDocker("can't reach the daemon")}

\* what the collaborators answer during one App::remove
RemoveOutcomes == [delete : DeleteAnswers, entry : BOOLEAN]

\* what docker answers to a run
RunAnswers == {Ok, ErrDocker("can't run the container")}

\* what a caller passes to App::create
Requests ==
    {[artifact |-> i, settings |-> p.settings, icon |-> p.icon, cmd |-> p.cmd,
      deps |-> p.deps] : i \in Packages, p \in Profiles}

\* the outcome of one operation of App: the registry, the cache directory, the
\* desktop directory, the images built so far, the calls made and the result
Outcome(config, scratch, desktop, built, trace, res, out) ==
    [config |-> config, scratch |-> scratch, desktop |-> desktop,
     built |-> built, trace |-> trace, res |-> res, out |-> out]
(* ------------------------------------------------------------------ *)
(* App                                                                *)
(* ------------------------------------------------------------------ *)

\* a handling of the error of the desktop entry that hands it to the caller
EntryErrorReturned(res) == res

\* unwrap_or_else on the result of create_entry and of the remove_file of the
\* desktop entry: an error is logged and dropped. The desktop directory is
\* taken to be known (dirs::desktop_dir() is Some)
EntryErrorLogged(res) == Ok

\* App::create_entry: writes "<package>.desktop" in the desktop directory
CreateEntry(desktop, package, canWrite) ==
    IF canWrite
    THEN [res |-> Ok, desktop |-> desktop \cup {package}]
    ELSE [res |-> ErrFile("can't write the entry"), desktop |-> desktop]

\* an end of App::create that asks docker to build before it inserts the
\* program in the registry
CreateCommitBuildFirst(config, scratch, desktop, built, tr, program, req, oc) ==
    LET build == Call("docker.create", program.name,
                      IF oc.fail = "build" THEN ErrDocker("can't build the image") ELSE Ok)
        pushed == ConfigPush(config, program)
        images == built \cup {program.name}
    IN
    IF build.res # Ok
    THEN Outcome(config, scratch, desktop, built, tr \o <<build>>, build.res, << >>)
    ELSE IF pushed.res # Ok
    THEN Outcome(config, scratch, desktop, images, tr \o <<build>>, pushed.res, << >>)
    ELSE Outcome(pushed.programs, scratch \ {Dockerfile, TmpDeb}, desktop, images,
                 tr \o <<build>>, Ok, << >>)

\* the end of App::create, from the insertion in the registry on: the files
\* tmp.deb and Dockerfile are in the cache directory, `tr` holds the calls
\* made so far
CreateCommit(config, scratch, desktop, built, tr, program, req, oc) ==
    LET pushed == ConfigPush(config, program)
        build == Call("docker.create", program.name,
                      IF oc.fail = "build" THEN ErrDocker("can't build the image") ELSE Ok)
        rmDocker == Call("fs.remove_file", Dockerfile,
                         IF oc.fail = "rmDockerfile" THEN ErrFile("remove") ELSE Ok)
        rmTmp == Call("fs.remove_file", TmpDeb,
                      IF oc.fail = "rmTmp" THEN ErrFile("remove") ELSE Ok)
        images == built \cup {program.name}
        entry == CreateEntry(desktop, program.name, oc.entry)
    IN
    IF pushed.res # Ok
    THEN Outcome(config, scratch, desktop, built, tr, pushed.res, << >>)
    ELSE IF build.res # Ok
    THEN Outcome(pushed.programs, scratch, desktop, built,
                 tr \o <<build>>, build.res, << >>)
    ELSE IF rmDocker.res # Ok
    THEN Outcome(pushed.programs, scratch, desktop, images,
                 tr \o <<build, rmDocker>>, rmDocker.res, << >>)
    ELSE IF rmTmp.res # Ok
    THEN Outcome(pushed.programs, scratch \ {Dockerfile}, desktop, images,
                 tr \o <<build, rmDocker, rmTmp>>, rmTmp.res, << >>)
    ELSE IF req.icon # None
    THEN Outcome(pushed.programs, scratch \ {Dockerfile, TmpDeb}, entry.desktop, images,
                 tr \o <<build, rmDocker, rmTmp,
                         Call("fs.write", "desktop entry", entry.res)>>,
                 EntryErrorLogged(entry.res), << >>)
    ELSE Outcome(pushed.programs, scratch \ {Dockerfile, TmpDeb}, desktop, images,
                 tr \o <<build, rmDocker, rmTmp>>, Ok, << >>)

\* the middle of App::create: the package is read, the files of the build are
\* put in the cache directory
CreateStage(config, scratch, desktop, built, req, oc) ==
    LET package == PackagePool[req.artifact]
        path == PathPool[req.artifact]
        program == ProgramNew(package, path, req.settings, req.icon, req.cmd, req.deps)
        left(file) == IF oc.partial THEN scratch \cup {file} ELSE scratch
        deb == Call("deb.try_new", path, IF oc.fail = "deb" THEN ErrDeb ELSE Ok)
        mkdir == Call("fs.create_dir_all", "cache",
                      IF oc.fail = "mkdir" THEN ErrFile("create_dir_all") ELSE Ok)
        copy == Call("fs.copy", TmpDeb, IF oc.fail = "copy" THEN ErrFile("copy") ELSE Ok)
        gen == Call("util.gen_dockerfile", package, IF oc.fail = "gen" THEN ErrGen ELSE Ok)
        write == Call("fs.write", Dockerfile,
                      IF oc.fail = "write" THEN ErrFile("write") ELSE Ok)
    IN
    IF deb.res # Ok
    THEN Outcome(config, scratch, desktop, built, <<deb>>, deb.res, << >>)
    ELSE IF mkdir.res # Ok
    THEN Outcome(config, scratch, desktop, built, <<deb, mkdir>>, mkdir.res, << >>)
    ELSE IF copy.res # Ok
    THEN Outcome(config, left(TmpDeb), desktop, built, <<deb, mkdir, copy>>,
                 copy.res, << >>)
    ELSE IF gen.res # Ok
    THEN Outcome(config, scratch \cup {TmpDeb}, desktop, built,
                 <<deb, mkdir, copy, gen>>, gen.res, << >>)
    ELSE IF write.res # Ok
    THEN Outcome(config, left(Dockerfile) \cup {TmpDeb}, desktop, built,
                 <<deb, mkdir, copy, gen, write>>, write.res, << >>)
    ELSE CreateCommit(config, scratch \cup {TmpDeb, Dockerfile}, desktop, built,
                      <<deb, mkdir, copy, gen, write>>, program, req, oc)

\* App::create
AppCreate(config, features, scratch, desktop, built, req, oc) ==
    IF ~Validate(features, req.settings)
    THEN Outcome(config, scratch, desktop, built, << >>, ErrUnavailableFeature, << >>)
    ELSE CreateStage(config, scratch, desktop, built, req, oc)

\* a match that lets no error of the delete through
DeleteToleratedOnlyOk(answer) == answer = Ok

\* a match that lets every error of the delete through
DeleteToleratedAlways(answer) == TRUE

\* App::remove, the match on the answer of docker.delete: Ok and the status
\* 404 let the removal go on, any other error ends it
DeleteTolerated(answer) ==
    answer = Ok \/ answer = ErrDockerStatus(StatusNotFound)

\* a remove that asks docker to delete before it looks the program up
AppRemoveDeleteFirst(config, scratch, desktop, built, name, oc) ==
    LET found == Find(config, name)
        delete == Call("docker.delete", name, oc.delete)
    IN
    IF ~DeleteTolerated(delete.res)
    THEN Outcome(config, scratch, desktop, built, <<delete>>, delete.res, << >>)
    ELSE IF found = None
    THEN Outcome(config, scratch, desktop, built, <<delete>>, ErrDoesntExist, << >>)
    ELSE Outcome(ConfigRemove(config, found[1].program).programs, scratch,
                 desktop \ {name}, built, <<delete>>, Ok, << >>)

\* App::remove
AppRemove(config, scratch, desktop, built, name, oc) ==
    LET found == Find(config, name)
        program == found[1].program
        delete == Call("docker.delete", name, oc.delete)
        removed == ConfigRemove(config, program)
        unlinked == oc.entry /\ GetNameShort(program) \in desktop
        unlink == Call("fs.remove_file", "desktop entry",
                       IF unlinked THEN Ok ELSE ErrFile("remove"))
    IN
    IF found = None
    THEN Outcome(config, scratch, desktop, built, << >>, ErrDoesntExist, << >>)
    ELSE IF ~DeleteTolerated(delete.res)
    THEN Outcome(config, scratch, desktop, built, <<delete>>, delete.res, << >>)
    ELSE IF removed.res # Ok
    THEN Outcome(config, scratch, desktop, built, <<delete>>, removed.res, << >>)
    ELSE IF program.icon # None
    THEN Outcome(removed.programs, scratch,
                 IF unlinked THEN desktop \ {GetNameShort(program)} ELSE desktop,
                 built, <<delete, unlink>>, EntryErrorLogged(unlink.res), << >>)
    ELSE Outcome(removed.programs, scratch, desktop, built, <<delete>>, Ok, << >>)

\* a run that does not stop when the program is unknown
AppRunUnchecked(config, scratch, desktop, built, name, answer) ==
    LET run == Call("docker.run", name, answer)
    IN Outcome(config, scratch, desktop, built, <<run>>,
               IF HasName(config, name) THEN run.res ELSE ErrNotFound, << >>)

\* App::run: docker is handed the program that Config::find gave
AppRun(config, scratch, desktop, built, name, answer) ==
    LET found == Find(config, name)
        run == Call("docker.run", found[1].program, answer)
    IN
    IF found = None
    THEN Outcome(config, scratch, desktop, built, << >>, ErrNotFound, << >>)
    ELSE Outcome(config, scratch, desktop, built, <<run>>, run.res, << >>)

\* a list that gives the names last first
AppListReversed(config, scratch, desktop, built) ==
    Outcome(config, scratch, desktop, built, << >>, Ok,
            [i \in 1 .. Len(config) |-> GetNameShort(config[Len(config) + 1 - i])])

\* App::list
AppList(config, scratch, desktop, built) ==
    Outcome(config, scratch, desktop, built, << >>, Ok,
            [i \in 1 .. Len(config) |-> GetNameShort(config[i])])
(* ------------------------------------------------------------------ *)
(* The configuration file                                             *)
(* ------------------------------------------------------------------ *)

\* the text of a file, as the tokens serde_json reads and writes: the
\* punctuation "{", "}", "[", "]", ":", ",", the literal "null", white space
\* ("ws") and strings ("str", with their value)
Tok(t) == [t |-> t, v |-> ""]

Str(v) == [t |-> "str", v |-> v]

\* the items of a JSON array or object, with a comma between two of them
RECURSIVE JsonJoin(_)
JsonJoin(items) ==
    IF items = << >> THEN << >>
    ELSE IF Len(items) = 1 THEN items[1]
    ELSE items[1] \o <<Tok(",")>> \o JsonJoin(Tail(items))

JsonArray(items) == <<Tok("[")>> \o JsonJoin(items) \o <<Tok("]")>>

JsonObject(fields) == <<Tok("{")>> \o JsonJoin(fields) \o <<Tok("}")>>

JsonField(key, value) == <<Str(key), Tok(":")>> \o value

\* serde_json of an Option: null, or the value
JsonOption(o, value) == IF o = None THEN <<Tok("null")>> ELSE value

\* serde_json of an Icon (derive(Serialize)): an object of its field
JsonOfIcon(icon) == JsonObject(<<JsonField("path", <<Str(icon.path)>>)>>)

\* serde_json of a Feature (derive(Serialize)): the name of the variant
JsonOfFeature(feature) == <<Str(feature)>>

\* serde_json of a Program (derive(Serialize)): an object of its six fields,
\* in the order of their declaration
JsonOfProgram(p) ==
    JsonObject(
        <<JsonField("name", <<Str(p.name)>>),
          JsonField("path", <<Str(p.path)>>),
          JsonField("settings",
                    JsonArray([i \in 1 .. Len(p.settings) |-> JsonOfFeature(p.settings[i])])),
          JsonField("icon", JsonOption(p.icon, JsonOfIcon(p.icon[1]))),
          JsonField("command", <<Str(p.command)>>),
          JsonField("deps", JsonOption(p.deps, <<Str(p.deps[1])>>))>>)

\* a document that lists the programs last first
SerdeToStringReversed(programs) ==
    JsonObject(
        <<JsonField("programs",
                    JsonArray([i \in 1 .. Len(programs) |->
                                  JsonOfProgram(programs[Len(programs) + 1 - i])]))>>)

\* serde_json::to_string(&Config): an object of the field programs, without
\* white space
SerdeToString(programs) ==
    JsonObject(
        <<JsonField("programs",
                    JsonArray([i \in 1 .. Len(programs) |-> JsonOfProgram(programs[i])]))>>)

\* the outcome of reading one value: whether it could be read, the value, and
\* the position after it
Unread == [ok |-> FALSE, value |-> << >>, next |-> 0]

ReadAs(value, next) == [ok |-> TRUE, value |-> value, next |-> next]

\* the token at position i is of kind t
Is(toks, i, t) == i >= 1 /\ i <= Len(toks) /\ toks[i].t = t

\* the tokens at position i are the key of a field and its colon
IsKey(toks, i, key) == Is(toks, i, "str") /\ toks[i].v = key /\ Is(toks, i + 1, ":")

ReadString(toks, i) == IF Is(toks, i, "str") THEN ReadAs(toks[i].v, i + 1) ELSE Unread

\* a Feature (derive(Deserialize)): the name of one of the variants
ReadFeature(toks, i) ==
    IF Is(toks, i, "str") /\ toks[i].v \in Feature THEN ReadAs(toks[i].v, i + 1) ELSE Unread

\* Option<Icon>
ReadIcon(toks, i) ==
    IF Is(toks, i, "null") THEN ReadAs(None, i + 1)
    ELSE IF /\ Is(toks, i, "{")
            /\ IsKey(toks, i + 1, "path")
            /\ Is(toks, i + 3, "str")
            /\ Is(toks, i + 4, "}")
    THEN ReadAs(Some(Icon(toks[i + 3].v)), i + 5)
    ELSE Unread

\* Option<String>
ReadDeps(toks, i) ==
    IF Is(toks, i, "null") THEN ReadAs(None, i + 1)
    ELSE IF Is(toks, i, "str") THEN ReadAs(Some(toks[i].v), i + 1)
    ELSE Unread

\* what follows an item of an array: a comma and the items left, or the end
\* of the array; ReadFeatureItems reads the items of an array of features
\* from the item at position i on
RECURSIVE ReadFeatureItems(_, _, _)
AfterFeature(toks, item, acc) ==
    IF ~item.ok THEN Unread
    ELSE IF Is(toks, item.next, ",")
    THEN ReadFeatureItems(toks, item.next + 1, Append(acc, item.value))
    ELSE IF Is(toks, item.next, "]")
    THEN ReadAs(Append(acc, item.value), item.next + 1)
    ELSE Unread

ReadFeatureItems(toks, i, acc) == AfterFeature(toks, ReadFeature(toks, i), acc)

\* Vec<Feature>
ReadFeatures(toks, i) ==
    IF ~Is(toks, i, "[") THEN Unread
    ELSE IF Is(toks, i + 1, "]") THEN ReadAs(<< >>, i + 2)
    ELSE ReadFeatureItems(toks, i + 1, << >>)

\* the fields of a Program, in the order of their declaration
ProgramFields == <<"name", "path", "settings", "icon", "command", "deps">>

\* the value of the field `key` of a Program, by the type of the field
ReadValue(toks, key, i) ==
    CASE key = "settings" -> ReadFeatures(toks, i)
      [] key = "icon" -> ReadIcon(toks, i)
      [] key = "deps" -> ReadDeps(toks, i)
      [] OTHER -> ReadString(toks, i)

\* the program of the values of its fields
ProgramOfValues(values) ==
    [name |-> values[1], path |-> values[2], settings |-> values[3],
     icon |-> values[4], command |-> values[5], deps |-> values[6]]

\* what follows the value of the field k of a Program: a comma and the
\* fields left, or, after the last field, the end of the object;
\* ReadFieldsFrom reads the fields of a Program from the key of the field k,
\* at position i, on
RECURSIVE ReadFieldsFrom(_, _, _, _)
AfterValue(toks, value, k, acc) ==
    IF ~value.ok THEN Unread
    ELSE IF k < Len(ProgramFields)
    THEN IF Is(toks, value.next, ",")
         THEN ReadFieldsFrom(toks, value.next + 1, k + 1, Append(acc, value.value))
         ELSE Unread
    ELSE IF Is(toks, value.next, "}")
    THEN ReadAs(ProgramOfValues(Append(acc, value.value)), value.next + 1)
    ELSE Unread

ReadFieldsFrom(toks, i, k, acc) ==
    IF IsKey(toks, i, ProgramFields[k])
    THEN AfterValue(toks, ReadValue(toks, ProgramFields[k], i + 2), k, acc)
    ELSE Unread

\* a Program (derive(Deserialize)), its fields in the order serde_json wrote them
ReadProgram(toks, i) ==
    IF Is(toks, i, "{") THEN ReadFieldsFrom(toks, i + 1, 1, << >>) ELSE Unread

\* ReadProgramItems reads the items of an array of programs from the item at
\* position i on
RECURSIVE ReadProgramItems(_, _, _)
AfterProgram(toks, item, acc) ==
    IF ~item.ok THEN Unread
    ELSE IF Is(toks, item.next, ",")
    THEN ReadProgramItems(toks, item.next + 1, Append(acc, item.value))
    ELSE IF Is(toks, item.next, "]")
    THEN ReadAs(Append(acc, item.value), item.next + 1)
    ELSE Unread

ReadProgramItems(toks, i, acc) == AfterProgram(toks, ReadProgram(toks, i), acc)

\* Vec<Program>
ReadPrograms(toks, i) ==
    IF ~Is(toks, i, "[") THEN Unread
    ELSE IF Is(toks, i + 1, "]") THEN ReadAs(<< >>, i + 2)
    ELSE ReadProgramItems(toks, i + 1, << >>)

\* what follows the value of the field programs: the end of the object and
\* of the text
AfterPrograms(toks, programs) ==
    IF programs.ok /\ Is(toks, programs.next, "}") /\ programs.next = Len(toks)
    THEN [res |-> Ok, programs |-> programs.value]
    ELSE [res |-> ErrFile("can't parse the configuration"), programs |-> << >>]

\* a Config (derive(Deserialize)): an object of the field programs
ReadConfig(toks) ==
    AfterPrograms(toks,
                  IF Is(toks, 1, "{") /\ IsKey(toks, 2, "programs")
                  THEN ReadPrograms(toks, 4) ELSE Unread)

NotSpace(token) == token.t # "ws"

\* serde_json::from_str::<Config>: white space between the tokens is skipped,
\* the text is an object of the field programs, and nothing follows it
SerdeFromStr(data) == ReadConfig(SelectSeq(data, NotSpace))

\* the text of a file without a byte
EmptyData == << >>

\* the text of a file of white space only
BlankData == <<Tok("ws")>>

\* the text of a file whose write stopped after its first byte
GarbageData == <<Tok("{")>>

\* the configuration file: whether it exists, and its bytes
NoFile == [exists |-> FALSE, data |-> EmptyData]

FileOf(data) == [exists |-> TRUE, data |-> data]

\* what the file system does with a write of the whole file: it is written; the
\* file can not be opened; or the write stops after the file was truncated,
\* with none or some of the bytes in it
WriteOutcomes == {"ok", "openfail", "truncated", "partial"}

\* Config::serialize
Serialize(programs, file, wo) ==
    CASE wo = "ok" -> [res |-> Ok, file |-> FileOf(SerdeToString(programs))]
      [] wo = "openfail" -> [res |-> ErrFile("can't write"), file |-> file]
      [] wo = "truncated" -> [res |-> ErrFile("can't write"), file |-> FileOf(EmptyData)]
      [] OTHER -> [res |-> ErrFile("can't write"), file |-> FileOf(GarbageData)]

\* what the file system does during Config::deserialize: whether the file can
\* be created or opened and read, and the fate of the write of a new file
LoadOutcomes == [open : BOOLEAN, write : WriteOutcomes]

\* Config::deserialize
Deserialize(file, lo) ==
    IF ~file.exists
    THEN IF lo.open
         THEN [res |-> Ok, programs |-> << >>,
               file |-> Serialize(<< >>, FileOf(EmptyData), lo.write).file]
         ELSE [res |-> ErrFile("can't create"), programs |-> << >>, file |-> file]
    ELSE IF ~lo.open
    THEN [res |-> ErrFile("can't read"), programs |-> << >>, file |-> file]
    ELSE IF file.data = EmptyData
    THEN [res |-> Ok, programs |-> << >>, file |-> file]
    ELSE [res |-> SerdeFromStr(file.data).res, programs |-> SerdeFromStr(file.data).programs,
          file |-> file]

\* File::create, the first half of std::fs::write: the file is there and
\* holds nothing
FsCreate(file) == FileOf(EmptyData)

\* write_all, the second half of std::fs::write, on the file as it is by
\* then: the text goes over the start of what the file holds, and what the
\* file holds beyond the length of the text stays
FsWriteAll(file, data) ==
    FileOf(data \o SubSeq(file.data, Len(data) + 1, Len(file.data)))

\* App::save
AppSave(config, file, wo) == Serialize(config, file, wo)

(* ------------------------------------------------------------------ *)
(* State                                                              *)
(* ------------------------------------------------------------------ *)

VARIABLES
    config,     \* App::config.programs (Config::programs): the registry in memory
    features,   \* App::features: the availability of each feature
    scratch,    \* the files in the cache directory (App::cache_path)
    desktop,    \* the packages with an entry file in the desktop directory
    built,      \* the packages whose image docker has built
    file,       \* the configuration file
    trace,      \* the calls the last operation made to its collaborators
    last,       \* the last operation: its name, its argument, its result
    pc,         \* where main is: "start", "ready" (an App is built), "save"
    ops,        \* the number of operations made so far
    procs       \* the processes that run main at the same time, when several do

vars == <<config, features, scratch, desktop, built, file, trace, last, pc, ops, procs>>

\* the record of the last operation
Last(op, program, res, out) == [op |-> op, program |-> program, res |-> res, out |-> out]

\* the program a request asks App::create for
ProgramOf(req) ==
    ProgramNew(PackagePool[req.artifact], PathPool[req.artifact],
               req.settings, req.icon, req.cmd, req.deps)

\* an operation of App ended with outcome `o`
Apply(op, program, o) ==
    /\ config' = o.config
    /\ scratch' = o.scratch
    /\ desktop' = o.desktop
    /\ built' = o.built
    /\ trace' = o.trace
    /\ last' = Last(op, program, o.res, o.out)

(* ------------------------------------------------------------------ *)
(* One process that holds an App and calls it any number of times     *)
(* ------------------------------------------------------------------ *)

\* App::new on an empty Config, on any system
Init ==
    /\ config = << >>
    /\ features \in {FeaturesListNew(system) : system \in Systems}
    /\ scratch = {}
    /\ desktop = {}
    /\ built = {}
    /\ file = NoFile
    /\ trace = << >>
    /\ last = Last("new", NoProgram, Ok, << >>)
    /\ pc = "ready"
    /\ ops = 0
    /\ procs = << >>

\* one more call to App, while the process makes calls
Called ==
    /\ ops < MaxOps
    /\ ops' = ops + 1

Create(req, oc) ==
    /\ Called
    /\ Apply("create", ProgramOf(req),
             AppCreate(config, features, scratch, desktop, built, req, oc))
    /\ UNCHANGED <<procs, features, file, pc>>

Remove(name, oc) ==
    /\ Called
    /\ Apply("remove", Named(name), AppRemove(config, scratch, desktop, built, name, oc))
    /\ UNCHANGED <<procs, features, file, pc>>

Run(name, answer) ==
    /\ Called
    /\ Apply("run", Named(name), AppRun(config, scratch, desktop, built, name, answer))
    /\ UNCHANGED <<procs, features, file, pc>>

List ==
    /\ Called
    /\ Apply("list", NoProgram, AppList(config, scratch, desktop, built))
    /\ UNCHANGED <<procs, features, file, pc>>

Next ==
    \/ \E req \in Requests, oc \in CreateOutcomes : Create(req, oc)
    \/ \E name \in Names, oc \in RemoveOutcomes : Remove(name, oc)
    \/ \E name \in Names, answer \in RunAnswers : Run(name, answer)
    \/ List

Spec == Init /\ [][Next]_vars

(* ------------------------------------------------------------------ *)
(* The registry alone: Config::push, Config::remove, Config::clear    *)
(* ------------------------------------------------------------------ *)

\* one more call to Config
ConfigCalled ==
    /\ ops < MaxConfigOps
    /\ ops' = ops + 1

Push(program) ==
    /\ ConfigCalled
    /\ config' = ConfigPush(config, program).programs
    /\ last' = Last("push", program, ConfigPush(config, program).res, << >>)
    /\ UNCHANGED <<procs, features, scratch, desktop, built, file, trace, pc>>

RemoveProgram(program) ==
    /\ ConfigCalled
    /\ config' = ConfigRemove(config, program).programs
    /\ last' = Last("remove", program, ConfigRemove(config, program).res, << >>)
    /\ UNCHANGED <<procs, features, scratch, desktop, built, file, trace, pc>>

Clear ==
    /\ ConfigCalled
    /\ config' = ConfigClear(config)
    /\ last' = Last("clear", NoProgram, Ok, << >>)
    /\ UNCHANGED <<procs, features, scratch, desktop, built, file, trace, pc>>

ConfigNext ==
    \/ \E program \in Programs : Push(program)
    \/ \E program \in Programs : RemoveProgram(program)
    \/ Clear

ConfigSpec == Init /\ [][ConfigNext]_vars
(* ------------------------------------------------------------------ *)
(* main: each run of the program loads the configuration file, builds *)
(* an App, makes one call to it and, if the call succeeds, saves      *)
(* ------------------------------------------------------------------ *)

\* the process was stopped before it returned
Killed == [kind |-> "Killed", msg |-> "", status |-> 0]

\* what main asks App::create for: the display, no icon
MainRequest(artifact) ==
    [artifact |-> artifact, settings |-> <<"Display">>, icon |-> None,
     cmd |-> None, deps |-> None]

\* a main that saves whatever the call returned
AfterCallAlwaysSave(res) == "save"

\* where main goes after a call to App: to the save if the call succeeded,
\* and out of the program (the next run starts) if it failed
AfterCall(res) == IF res = Ok THEN "save" ELSE "start"

\* no run of the program yet, no configuration file
MainInit ==
    /\ config = << >>
    /\ features = [f \in Feature |-> FALSE]
    /\ scratch = {}
    /\ desktop = {}
    /\ built = {}
    /\ file = NoFile
    /\ trace = << >>
    /\ last = Last("new", NoProgram, Ok, << >>)
    /\ pc = "start"
    /\ ops = 0
    /\ procs = << >>

\* Config::deserialize, System::try_new, App::new
MainLoad(lo, system, systemOk) ==
    LET loaded == Deserialize(file, lo)
        res == IF loaded.res # Ok THEN loaded.res
               ELSE IF ~systemOk THEN ErrDocker("can't reach the daemon")
               ELSE Ok
    IN
    /\ pc = "start"
    /\ ops < MaxRuns
    /\ ops' = ops + 1
    /\ file' = loaded.file
    /\ config' = IF res = Ok THEN loaded.programs ELSE << >>
    /\ features' = IF res = Ok THEN FeaturesListNew(system) ELSE features
    /\ trace' = << >>
    /\ last' = Last("load", NoProgram, res, << >>)
    /\ pc' = IF res = Ok THEN "ready" ELSE "start"
    /\ UNCHANGED <<procs, scratch, desktop, built>>

\* the subcommand "test"
MainTest ==
    /\ pc = "ready"
    /\ trace' = << >>
    /\ last' = Last("test", NoProgram, Ok, << >>)
    /\ pc' = AfterCall(Ok)
    /\ UNCHANGED <<procs, config, features, scratch, desktop, built, file, ops>>

\* the subcommand "create"; the process may be stopped where the call would fail
MainCreate(artifact, oc, killed) ==
    LET o == AppCreate(config, features, scratch, desktop, built,
                       MainRequest(artifact), oc)
        res == IF killed THEN Killed ELSE o.res
    IN
    /\ pc = "ready"
    /\ Apply("create", ProgramOf(MainRequest(artifact)), [o EXCEPT !.res = res])
    /\ pc' = AfterCall(res)
    /\ UNCHANGED <<procs, features, file, ops>>

\* the subcommand "run"
MainRun(name, answer) ==
    LET o == AppRun(config, scratch, desktop, built, name, answer)
    IN
    /\ pc = "ready"
    /\ Apply("run", Named(name), o)
    /\ pc' = AfterCall(o.res)
    /\ UNCHANGED <<procs, features, file, ops>>

\* the subcommand "remove"
MainRemove(name, oc) ==
    LET o == AppRemove(config, scratch, desktop, built, name, oc)
    IN
    /\ pc = "ready"
    /\ Apply("remove", Named(name), o)
    /\ pc' = AfterCall(o.res)
    /\ UNCHANGED <<procs, features, file, ops>>

\* the subcommand "list"
MainList ==
    LET o == AppList(config, scratch, desktop, built)
    IN
    /\ pc = "ready"
    /\ Apply("list", NoProgram, o)
    /\ pc' = AfterCall(o.res)
    /\ UNCHANGED <<procs, features, file, ops>>

\* app.save(&config_path), the last statement of main
MainSave(wo) ==
    /\ pc = "save"
    /\ file' = AppSave(config, file, wo).file
    /\ trace' = << >>
    /\ last' = Last("save", NoProgram, AppSave(config, file, wo).res, << >>)
    /\ pc' = "start"
    /\ UNCHANGED <<procs, config, features, scratch, desktop, built, ops>>

\* the process is stopped between two statements of main
MainKill ==
    /\ pc \in {"ready", "save"}
    /\ trace' = << >>
    /\ last' = Last("kill", NoProgram, Killed, << >>)
    /\ pc' = "start"
    /\ UNCHANGED <<procs, config, features, scratch, desktop, built, file, ops>>

MainNext ==
    \/ \E lo \in LoadOutcomes, system \in Systems, systemOk \in BOOLEAN :
           MainLoad(lo, system, systemOk)
    \/ MainTest
    \/ \E artifact \in Packages, oc \in CreateOutcomes, killed \in BOOLEAN :
           MainCreate(artifact, oc, killed)
    \/ \E name \in Names, answer \in RunAnswers : MainRun(name, answer)
    \/ \E name \in Names, oc \in RemoveOutcomes : MainRemove(name, oc)
    \/ MainList
    \/ \E wo \in WriteOutcomes : MainSave(wo)
    \/ MainKill

MainSpec == MainInit /\ [][MainNext]_vars
(* ------------------------------------------------------------------ *)
(* Properties                                                         *)
(* ------------------------------------------------------------------ *)

\* the name the last operation was about
LastName == last.program.name

\* a registry holds a record of that name
Registered(programs, name) == \E i \in 1 .. Len(programs) : programs[i].name = name

\* the error docker.create ends App::create with
BuildFailed == ErrDocker("can't build the image")

\* C1: when the image build fails during create, create returns an error and
\* the registry in memory is what it was before the call.
C1_BuildFailureLeavesRegistry ==
    [][(last'.op = "create" /\ last'.res = BuildFailed) => config' = config]_vars

\* the records of the configuration file, none if it holds no document
RecordsOf(f) ==
    IF f.exists THEN SerdeFromStr(f.data).programs ELSE << >>

\* every record of the configuration file names a package whose image was built
PersistedBuilt ==
    \A i \in 1 .. Len(RecordsOf(file)) : RecordsOf(file)[i].name \in built

\* C2: over any number of runs of the program (load, one operation, save),
\* with create failing or being stopped at any step, the configuration file
\* never holds a record for a program whose image was not built; the records
\* of the file change only in the save that ends an operation that succeeded.
C2_PersistedOnlyBuilt ==
    /\ [](PersistedBuilt /\ (pc = "save" => last.res = Ok))
    /\ [][RecordsOf(file') # RecordsOf(file) => pc = "save"]_vars

\* a create failed at the build or was stopped, its record is in the registry
\* in memory, and the file, which holds records, does not hold that one
C2_Witness ==
    /\ last.op = "create"
    /\ last.res \in {BuildFailed, Killed}
    /\ Registered(config, LastName)
    /\ LastName \notin built
    /\ RecordsOf(file) # << >>
    /\ ~Registered(RecordsOf(file), LastName)

\* C3: when create returns, with success or with an error, the cache
\* directory holds neither tmp.deb nor the Dockerfile.
C3_ScratchEmptyAfterCreate ==
    last.op = "create" => scratch = {}

\* C4: from an empty registry, after any sequence of push, remove and clear,
\* no two records of the registry have the same name.
C4_UniqueNames ==
    \A i, j \in 1 .. Len(config) : config[i].name = config[j].name => i = j

\* the registry holds every name, and a push of one of them was refused
C4_Witness ==
    /\ Len(config) = NumPackages
    /\ last.op = "push"
    /\ last.res = ErrAlreadyExists

\* C5: a push of a record whose name is in the registry fails with the
\* "already exists" error and leaves the registry as it was; a push of a
\* record whose name is not in the registry succeeds and appends it.
C5_PushDuplicateOrAppend ==
    [][last'.op = "push" =>
          IF Registered(config, last'.program.name)
          THEN last'.res = ErrAlreadyExists /\ config' = config
          ELSE last'.res = Ok /\ config' = Append(config, last'.program)]_vars

\* a push of a record that differs from the registered record of its name was
\* refused
C5_Witness ==
    /\ last.op = "push"
    /\ last.res = ErrAlreadyExists
    /\ Len(config) = 2
    /\ \E i \in 1 .. Len(config) :
           config[i].name = LastName /\ config[i] # last.program

\* C6: remove of a name that is not in the registry fails with the "doesn't
\* exist" error, leaves the registry as it was, asks docker for nothing and
\* deletes no desktop entry; Config::remove of such a name fails with the
\* "can't find" error and leaves the registry as it was.
C6_RemoveAbsent ==
    /\ [](\A p \in Programs :
             ~Registered(config, p.name) =>
                 /\ ConfigRemove(config, p).res = ErrCantFind
                 /\ ConfigRemove(config, p).programs = config)
    /\ [][(last'.op = "remove" /\ ~Registered(config, last'.program.name)) =>
             /\ last'.res = ErrDoesntExist
             /\ config' = config
             /\ trace' = << >>
             /\ desktop' = desktop]_vars

\* a remove of an unknown name was refused while the registry holds a program
\* that has a desktop entry
C6_Witness ==
    /\ last.op = "remove"
    /\ last.res = ErrDoesntExist
    /\ config # << >>
    /\ desktop # {}

\* the answer docker gave to the delete of the last remove, if it was asked
DeleteAnswered(tr, answers) ==
    /\ Len(tr) >= 1
    /\ tr[1].call = "docker.delete"
    /\ tr[1].res \in answers

\* C7: when remove is called for a registered program and docker answers the
\* delete with the status 404, remove succeeds and the registry holds no
\* record of that name.
C7_RemoveToleratesNotFound ==
    [][(/\ last'.op = "remove"
        /\ Registered(config, last'.program.name)
        /\ DeleteAnswered(trace', {ErrDockerStatus(StatusNotFound)})) =>
          /\ last'.res = Ok
          /\ ~Registered(config', last'.program.name)]_vars

\* a remove succeeded though docker answered 404, and another program is left
C7_Witness ==
    /\ last.op = "remove"
    /\ last.res = Ok
    /\ DeleteAnswered(trace, {ErrDockerStatus(StatusNotFound)})
    /\ config # << >>

\* C8: when remove is called for a registered program and the delete fails
\* with anything but the status 404, remove fails with that error, the
\* registry still holds the record and no desktop entry is deleted.
C8_RemoveFailsOnOtherErrors ==
    [][(/\ last'.op = "remove"
        /\ Registered(config, last'.program.name)
        /\ DeleteAnswered(trace', DeleteAnswers \ {Ok, ErrDockerStatus(StatusNotFound)})) =>
          /\ last'.res = trace'[1].res
          /\ config' = config
          /\ desktop' = desktop
          /\ Len(trace') = 1]_vars

\* a remove of a program that has a desktop entry failed with the status 500
C8_Witness ==
    /\ last.op = "remove"
    /\ last.res = ErrDockerStatus(StatusServerError)
    /\ Registered(config, LastName)
    /\ LastName \in desktop

\* one of the settings is not available
Unavailable(list, settings) == \E i \in 1 .. Len(settings) : ~list[settings[i]]

\* C9: create with settings of which one at least is unavailable fails with
\* the "unavailable feature" error before the package is read, before
\* anything is written in the cache directory and before docker is asked to
\* build, and leaves the registry as it was.
C9_UnavailableFeatureFailsFirst ==
    [][(last'.op = "create" /\ Unavailable(features, last'.program.settings)) =>
          /\ last'.res = ErrUnavailableFeature
          /\ trace' = << >>
          /\ scratch' = scratch
          /\ built' = built
          /\ desktop' = desktop
          /\ config' = config]_vars

\* a create was refused for settings of which the first is available and the
\* second is not
C9_Witness ==
    /\ last.op = "create"
    /\ last.res = ErrUnavailableFeature
    /\ Len(last.program.settings) = 2
    /\ features[last.program.settings[1]]
    /\ ~features[last.program.settings[2]]

\* C10: run of a name that is not in the registry fails with the "not found"
\* error and asks docker for nothing.
C10_RunAbsent ==
    [][(last'.op = "run" /\ ~Registered(config, last'.program.name)) =>
          /\ last'.res = ErrNotFound
          /\ trace' = << >>]_vars

\* a run of an unknown name was refused while the registry holds a program
C10_Witness ==
    /\ last.op = "run"
    /\ last.res = ErrNotFound
    /\ config # << >>

(* ------------------------------------------------------------------ *)
(* One program through its life: an App built on the registry of the  *)
(* configuration file creates a program, is asked to create it again, *)
(* and removes it                                                     *)
(* ------------------------------------------------------------------ *)

\* the registries a configuration file can hold: no name twice
Registries ==
    {r \in UNION {[1 .. n -> Programs] : n \in 0 .. NumPackages} :
        \A i, j \in 1 .. Len(r) : r[i].name = r[j].name => i = j}

\* Config::deserialize of a file that holds a registry, then App::new
LifeInit ==
    /\ config \in Registries
    /\ file = FileOf(SerdeToString(config))
    /\ features \in {FeaturesListNew(system) : system \in Systems}
    /\ scratch = {}
    /\ desktop = {}
    /\ built = {}
    /\ trace = << >>
    /\ last = Last("new", NoProgram, Ok, << >>)
    /\ pc = "ready"
    /\ ops = 0
    /\ procs = << >>

\* the first call: App::create of a package whose name is not in the registry
LifeCreate(req, oc) ==
    /\ ops = 0
    /\ ~HasName(config, PackagePool[req.artifact])
    /\ Create(req, oc)

\* the second call, after a create that succeeded: App::create of the same package
LifeCreateAgain(req, oc) ==
    /\ ops = 1
    /\ last.res = Ok
    /\ PackagePool[req.artifact] = last.program.name
    /\ Create(req, oc)

\* the third call: App::remove of the program
LifeRemove(oc) ==
    /\ ops = 2
    /\ Remove(last.program.name, oc)

LifeNext ==
    \/ \E req \in Requests, oc \in CreateOutcomes : LifeCreate(req, oc)
    \/ \E req \in Requests, oc \in CreateOutcomes : LifeCreateAgain(req, oc)
    \/ \E oc \in RemoveOutcomes : LifeRemove(oc)

LifeSpec == LifeInit /\ [][LifeNext]_vars

\* the registry the App was built on
LoadedRegistry == SerdeFromStr(file.data).programs

\* the indices of the records of a name
RecordsNamed(programs, name) == {i \in 1 .. Len(programs) : programs[i].name = name}

\* the last create went as far as the insertion in the registry
ReachedPush == Len(trace) >= 5 /\ \A i \in 1 .. 5 : trace[i].res = Ok

\* C11: from a registry without the name n, a create of package n that
\* succeeds leaves the registry with one record named n, with the settings
\* asked for, after the records it had; a second create of the package fails
\* (with the "already exists" error once the package is read and staged) and
\* changes nothing; the remove of n that follows succeeds, if docker deletes
\* or answers 404, and leaves the registry as it was before the first create.
C11_CreateDuplicateRemove ==
    /\ (ops = 1 /\ last.res = Ok) =>
           /\ config = Append(LoadedRegistry, last.program)
           /\ Cardinality(RecordsNamed(config, LastName)) = 1
    /\ ops = 2 =>
           /\ last.res # Ok
           /\ ReachedPush => last.res = ErrAlreadyExists
           /\ Len(config) = Len(LoadedRegistry) + 1
           /\ SubSeq(config, 1, Len(LoadedRegistry)) = LoadedRegistry
           /\ RecordsNamed(config, LastName) = {Len(config)}
    /\ ops = 3 =>
           /\ last.res = Ok <=>
                  DeleteAnswered(trace, {Ok, ErrDockerStatus(StatusNotFound)})
           /\ last.res = Ok => config = LoadedRegistry

\* the three calls were made on a registry that held a program, and the
\* registry is again what it was
C11_Witness ==
    /\ ops = 3
    /\ last.op = "remove"
    /\ last.res = Ok
    /\ config # << >>
    /\ config = LoadedRegistry

(* ------------------------------------------------------------------ *)
(* The configuration file over the runs of the program: a run loads    *)
(* the registry from the file (App::new) and may save it (App::save).  *)
(* ------------------------------------------------------------------ *)

MaxFileOps == 3

\* the files a first run can find: none, one without a byte, one of white
\* space, one whose last write stopped early
StartFiles == {NoFile, FileOf(EmptyData), FileOf(BlankData), FileOf(GarbageData)}

FileInit ==
    /\ config \in Registries
    /\ file \in StartFiles
    /\ features \in {FeaturesListNew(system) : system \in Systems}
    /\ scratch = {}
    /\ desktop = {}
    /\ built = {}
    /\ trace = << >>
    /\ last = Last("new", NoProgram, Ok, << >>)
    /\ pc = "ready"
    /\ ops = 0
    /\ procs = << >>

\* App::save of the registry of the run
FileSave(wo) ==
    LET saved == AppSave(config, file, wo)
    IN
    /\ pc = "ready"
    /\ ops < MaxFileOps
    /\ ops' = ops + 1
    /\ file' = saved.file
    /\ last' = Last("save", NoProgram, saved.res, config)
    /\ UNCHANGED <<procs, config, features, scratch, desktop, built, trace, pc>>

\* a new run: Config::deserialize gives the registry of the run, or the run
\* ends with its error
FileLoad(lo) ==
    LET loaded == Deserialize(file, lo)
    IN
    /\ ops < MaxFileOps
    /\ ops' = ops + 1
    /\ file' = loaded.file
    /\ config' = loaded.programs
    /\ last' = Last("load", NoProgram, loaded.res, loaded.programs)
    /\ pc' = IF loaded.res = Ok THEN "ready" ELSE "failed"
    /\ UNCHANGED <<procs, features, scratch, desktop, built, trace>>

FileNext ==
    \/ \E wo \in WriteOutcomes : FileSave(wo)
    \/ \E lo \in LoadOutcomes : FileLoad(lo)

FileSpec == FileInit /\ [][FileNext]_vars

\* C12: for every registry R, saving R and then loading from the file that
\* was written yields a registry equal to R, with the same records in the
\* same order (whenever the file can be opened and read)
C12_SaveLoadRoundTrip ==
    (last.op = "save" /\ last.res = Ok) =>
        \A lo \in LoadOutcomes :
            lo.open =>
                /\ Deserialize(file, lo).res = Ok
                /\ Deserialize(file, lo).programs = config

\* a run has loaded a registry of several records from the file a save wrote
C12_Witness ==
    /\ last.op = "load"
    /\ last.res = Ok
    /\ Len(config) = NumPackages
    /\ last.out = config
    /\ file = FileOf(SerdeToString(config))

\* a text of white space only (the text without a byte is one)
Blank(data) == \A i \in 1 .. Len(data) : data[i].t = "ws"

\* a text that is neither blank nor the document of a registry
Malformed(data) ==
    /\ ~Blank(data)
    /\ ~\E r \in Registries : SelectSeq(data, NotSpace) = SerdeToString(r)

\* C13: load never fails because the file is missing: without a file it
\* creates the file and returns an empty registry (when the file can be
\* created); with an empty or blank file it returns an empty registry (when
\* the file can be read); with a malformed file it fails with a File error
C13_LoadMissingBlankMalformed ==
    [][last'.op = "load" =>
        /\ (~file.exists /\ last'.res # ErrFile("can't create")) =>
               (last'.res = Ok /\ last'.out = << >> /\ file'.exists)
        /\ (file.exists /\ Blank(file.data) /\ last'.res # ErrFile("can't read")) =>
               (last'.res = Ok /\ last'.out = << >>)
        /\ (file.exists /\ Malformed(file.data)) =>
               last'.res.kind = "File"]_vars

(* ------------------------------------------------------------------ *)
(* FeaturesList::validate on the list of every system and on every     *)
(* request of up to MaxSettings settings.                              *)
(* ------------------------------------------------------------------ *)

MaxSettings == 2

\* every System: with or without a window manager and a sound driver
AllSystems == [wm : BOOLEAN, sd : BOOLEAN]

\* every Vec<Feature> of up to MaxSettings settings
SettingsPool == UNION {[1 .. n -> Feature] : n \in 0 .. MaxSettings}

ValidateInit ==
    /\ config = << >>
    /\ features \in {FeaturesListNew(system) : system \in AllSystems}
    /\ scratch = {}
    /\ desktop = {}
    /\ built = {}
    /\ file = NoFile
    /\ trace = << >>
    /\ last = Last("new", NoProgram, Ok, << >>)
    /\ pc = "ready"
    /\ ops = 0
    /\ procs = << >>

\* self.features.validate(&settings)
ValidateCall(settings) ==
    /\ last' = Last("validate", NoProgram, Ok,
                    [settings |-> settings, valid |-> Validate(features, settings)])
    /\ UNCHANGED <<procs, config, features, scratch, desktop, built, file, trace, pc, ops>>

ValidateNext == \E settings \in SettingsPool : ValidateCall(settings)

ValidateSpec == ValidateInit /\ [][ValidateNext]_vars

\* C14: validate(requested) is true if and only if every requested setting is
\* true in the list; it is true for the empty request whatever the list, and
\* false as soon as one requested setting is false in the list
C14_ValidateIffAllAvailable ==
    last.op = "validate" =>
        LET settings == last.out.settings
            valid == last.out.valid
        IN /\ valid <=> \A i \in 1 .. Len(settings) : features[settings[i]]
           /\ settings = << >> => valid
           /\ (\E i \in 1 .. Len(settings) : ~features[settings[i]]) => ~valid

\* a request whose first setting is available and whose last is not was
\* refused
C14_Witness ==
    /\ last.op = "validate"
    /\ Len(last.out.settings) = MaxSettings
    /\ features[last.out.settings[1]]
    /\ ~features[last.out.settings[MaxSettings]]
    /\ ~last.out.valid

\* C15: from an empty registry, after any sequence of create, run, remove and
\* list within one process, the settings of every record of the registry are
\* available on the system of the process, the one the record was created on
C15_SettingsAvailable ==
    \A i \in 1 .. Len(config) :
        \A k \in 1 .. Len(config[i].settings) : features[config[i].settings[k]]

\* a record with settings is in the registry after a later call
C15_Witness ==
    /\ ops >= 2
    /\ last.op \in {"run", "remove"}
    /\ \E i \in 1 .. Len(config) : config[i].settings # << >>

\* the calls of a create that got as far as the insertion in the registry:
\* the package was read, copied, and its Dockerfile generated and written
Staged(tr) == Len(tr) >= 5 /\ \A i \in 1 .. 5 : tr[i].res = Ok

\* C16: a create for a package whose name is in the registry fails without
\* asking docker to build: the name is checked (by the insertion) before the
\* build, the error is the "already exists" one whenever the create gets as
\* far as the insertion, and the registry and the images stay as they were
C16_DuplicateBeforeBuild ==
    [][(last'.op = "create" /\ HasName(config, last'.program.name)) =>
          /\ last'.res # Ok
          /\ CallsTo(trace', "docker.create") = {}
          /\ Staged(trace') => last'.res = ErrAlreadyExists
          /\ config' = config
          /\ built' = built]_vars

\* a second create of a program whose image was built was refused at the
\* insertion, without a call to docker
C16_Witness ==
    /\ last.op = "create"
    /\ last.res = ErrAlreadyExists
    /\ HasName(config, last.program.name)
    /\ last.program.name \in built
    /\ Staged(trace)
    /\ CallsTo(trace, "docker.create") = {}

\* the call `call` on the desktop entry was made and failed
EntryFailed(tr, call) ==
    \E i \in 1 .. Len(tr) :
        tr[i].call = call /\ tr[i].arg = "desktop entry" /\ tr[i].res # Ok

\* C17: a create whose write of the desktop entry failed still succeeds, with
\* the record in the registry and the image built; a remove whose delete of
\* the desktop entry failed still succeeds, with the record gone
C17_EntryFailureNotFatal ==
    /\ (last.op = "create" /\ EntryFailed(trace, "fs.write")) =>
           /\ last.res = Ok
           /\ \E i \in 1 .. Len(config) : config[i] = last.program
           /\ LastName \in built
    /\ (last.op = "remove" /\ EntryFailed(trace, "fs.remove_file")) =>
           /\ last.res = Ok
           /\ ~Registered(config, LastName)

\* a program was created though its entry could not be written, and then
\* removed though the entry could not be deleted
C17_Witness ==
    /\ ops = 2
    /\ last.op = "remove"
    /\ EntryFailed(trace, "fs.remove_file")
    /\ LastName \notin desktop
    /\ LastName \in built
    /\ last.res = Ok
    /\ config = << >>

\* the calls of a trace to docker
DockerCalls(tr) == {i \in 1 .. Len(tr) : tr[i].call \in {"docker.create", "docker.delete", "docker.run"}}

\* `after` is `before` without one of its records, the others in their order
OneTakenOut(before, after) ==
    \E i \in 1 .. Len(before) :
        after = SubSeq(before, 1, i - 1) \o SubSeq(before, i + 1, Len(before))

\* C18: run and list leave the registry as it is, whether they succeed or
\* fail; list calls no collaborator and returns the names of the records of
\* the registry in their order, which is the order of their insertion: a
\* create adds its record after the others and a remove keeps the order of
\* the records it leaves
C18_RunListReadOnly ==
    [][/\ last'.op \in {"run", "list"} => config' = config
       /\ last'.op = "list" =>
              /\ last'.res = Ok
              /\ DockerCalls(trace') = {}
              /\ last'.out = [i \in 1 .. Len(config) |-> config[i].name]
       /\ last'.op = "create" =>
              (config' = config \/ config' = Append(config, last'.program))
       /\ last'.op = "remove" =>
              (config' = config \/ OneTakenOut(config, config'))]_vars

\* list gave the names of two programs in the order of their creation, which
\* is not the order of the packages
C18_Witness ==
    /\ last.op = "list"
    /\ ops = 3
    /\ Len(config) = 2
    /\ config[1].name = PackagePool[2]
    /\ config[2].name = PackagePool[1]
    /\ last.out = <<PackagePool[2], PackagePool[1]>>

\* the records of a registry that are not named `name`, in their order
Others(programs, name) == SelectSeq(programs, LAMBDA p : p.name # name)

MaxNameLen == 2

\* the characters of a prefix or of a name: a letter and the underscore
Chars == {"a", "_"}

\* every String of up to MaxNameLen characters
Strings == UNION {[1 .. n -> Chars] : n \in 0 .. MaxNameLen}

\* Program::get_name: format!("{}_{}", prefix, self.name)
GetName(prefix, name) == prefix \o <<"_">> \o name

NameInit ==
    /\ config = << >>
    /\ features \in {FeaturesListNew(system) : system \in Systems}
    /\ scratch = {}
    /\ desktop = {}
    /\ built = {}
    /\ file = NoFile
    /\ trace = << >>
    /\ last = Last("new", NoProgram, Ok, << >>)
    /\ pc = "ready"
    /\ ops = 0
    /\ procs = << >>

\* the installation of prefix p1 names its program n1 for docker, the
\* installation of prefix p2 its program n2
GetNames(p1, n1, p2, n2) ==
    /\ pc = "ready"
    /\ pc' = "done"
    /\ last' = Last("get_name", NoProgram, Ok,
                    <<[prefix |-> p1, name |-> n1, id |-> GetName(p1, n1)],
                      [prefix |-> p2, name |-> n2, id |-> GetName(p2, n2)]>>)
    /\ UNCHANGED <<procs, config, features, scratch, desktop, built, file, trace, ops>>

NameNext == \E p1, n1, p2, n2 \in Strings : GetNames(p1, n1, p2, n2)

NameSpec == NameInit /\ [][NameNext]_vars

\* C20: the identifiers of two installations of different prefixes differ,
\* whatever the names of their programs
C20_PrefixesNeverCollide ==
    last.op = "get_name" =>
        (last.out[1].prefix # last.out[2].prefix => last.out[1].id # last.out[2].id)

(* ------------------------------------------------------------------ *)
(* Two processes run main at the same time on one host: each loads the *)
(* registry from the configuration file, makes one call to its App and *)
(* saves. They share the file, the cache directory, the desktop        *)
(* directory and the images of docker; each has its own registry.      *)
(* ------------------------------------------------------------------ *)

Procs == {1, 2}

\* a process: where its main is ("start", "ready", "save", "write", "done"), its
\* registry, and whether its save succeeded
Process(at, programs, saved) == [pc |-> at, config |-> programs, saved |-> saved]

\* the files the processes can find: none, or the one that an earlier run,
\* which created the first package, saved
SavedFiles == {NoFile, FileOf(SerdeToString(<<ProgramOf(MainRequest(1))>>))}

TwoInit ==
    /\ config = << >>
    /\ features \in {FeaturesListNew(system) : system \in Systems}
    /\ scratch = {}
    /\ desktop = {}
    /\ file \in SavedFiles
    /\ built = {name \in Names : Registered(SerdeFromStr(file.data).programs, name)}
    /\ trace = << >>
    /\ last = Last("new", NoProgram, Ok, << >>)
    /\ pc = "ready"
    /\ ops = 0
    /\ procs = [p \in Procs |-> Process("start", << >>, FALSE)]

\* where the main of a process goes after a call to App: to the save, or out
\* of the program
TwoAfter(res) == IF AfterCall(res) = "save" THEN "save" ELSE "done"

\* the process p ended an operation of its App with outcome `o`
TwoApply(p, op, program, o) ==
    /\ procs[p].pc = "ready"
    /\ procs' = [procs EXCEPT ![p] = Process(TwoAfter(o.res), o.config, FALSE)]
    /\ scratch' = o.scratch
    /\ desktop' = o.desktop
    /\ built' = o.built
    /\ trace' = o.trace
    /\ last' = Last(op, program, o.res, <<p>>)
    /\ UNCHANGED <<config, features, file, pc, ops>>

\* Config::deserialize, System::try_new and App::new of the process p
TwoLoad(p, lo, systemOk) ==
    LET loaded == Deserialize(file, lo)
        res == IF loaded.res # Ok THEN loaded.res
               ELSE IF ~systemOk THEN ErrDocker("can't reach the daemon")
               ELSE Ok
    IN
    /\ procs[p].pc = "start"
    /\ file' = loaded.file
    /\ procs' = [procs EXCEPT ![p] =
                    IF res = Ok THEN Process("ready", loaded.programs, FALSE)
                    ELSE Process("done", << >>, FALSE)]
    /\ trace' = << >>
    /\ last' = Last("load", NoProgram, res, <<p>>)
    /\ UNCHANGED <<config, features, scratch, desktop, built, pc, ops>>

\* the subcommand "create" of the process p
TwoCreate(p, artifact, oc) ==
    TwoApply(p, "create", ProgramOf(MainRequest(artifact)),
             AppCreate(procs[p].config, features, scratch, desktop, built,
                       MainRequest(artifact), oc))

\* the subcommand "remove" of the process p
TwoRemove(p, name, oc) ==
    TwoApply(p, "remove", Named(name),
             AppRemove(procs[p].config, scratch, desktop, built, name, oc))

\* the subcommand "run" of the process p
TwoRun(p, name, answer) ==
    TwoApply(p, "run", Named(name),
             AppRun(procs[p].config, scratch, desktop, built, name, answer))

\* the subcommand "list" of the process p
TwoList(p) ==
    TwoApply(p, "list", NoProgram, AppList(procs[p].config, scratch, desktop, built))

\* app.save(&config_path) of the process p, the last statement of its main,
\* as far as the opening of the file by std::fs::write, which empties it
TwoOpen(p, canOpen) ==
    /\ procs[p].pc = "save"
    /\ file' = IF canOpen THEN FsCreate(file) ELSE file
    /\ procs' = [procs EXCEPT ![p] =
                    Process(IF canOpen THEN "write" ELSE "done", procs[p].config, FALSE)]
    /\ trace' = << >>
    /\ last' = IF canOpen THEN Last("open", NoProgram, Ok, <<p>>)
               ELSE Last("save", NoProgram, ErrFile("can't write"), <<p>>)
    /\ UNCHANGED <<config, features, scratch, desktop, built, pc, ops>>

\* the rest of app.save of the process p: std::fs::write writes the document
\* of the registry from the start of the file, all of it, none of it or a
\* part of it
TwoWrite(p, wo) ==
    /\ procs[p].pc = "write"
    /\ file' = CASE wo = "ok" -> FsWriteAll(file, SerdeToString(procs[p].config))
                 [] wo = "partial" -> FsWriteAll(file, GarbageData)
                 [] OTHER -> file
    /\ procs' = [procs EXCEPT ![p] = Process("done", procs[p].config, wo = "ok")]
    /\ trace' = << >>
    /\ last' = Last("save", NoProgram,
                    IF wo = "ok" THEN Ok ELSE ErrFile("can't write"), <<p>>)
    /\ UNCHANGED <<config, features, scratch, desktop, built, pc, ops>>

TwoNext ==
    \E p \in Procs :
        \/ \E lo \in LoadOutcomes, systemOk \in BOOLEAN : TwoLoad(p, lo, systemOk)
        \/ \E artifact \in Packages, oc \in CreateOutcomes : TwoCreate(p, artifact, oc)
        \/ \E name \in Names, oc \in RemoveOutcomes : TwoRemove(p, name, oc)
        \/ \E name \in Names, answer \in RunAnswers : TwoRun(p, name, answer)
        \/ TwoList(p)
        \/ \E canOpen \in BOOLEAN : TwoOpen(p, canOpen)
        \/ \E wo \in WriteOutcomes \ {"openfail"} : TwoWrite(p, wo)

TwoSpec == TwoInit /\ [][TwoNext]_vars

\* the process of the last operation
LastProc == last.out[1]

\* C21: when two processes load the registry from the same file, make a call
\* and save, in any interleaving, the file ends up holding exactly the
\* registry of the process whose save ran last
C21_LastWriterWins ==
    (/\ \A p \in Procs : procs[p].pc = "done"
     /\ last.op = "save"
     /\ last.res = Ok) =>
        /\ SerdeFromStr(file.data).res = Ok
        /\ SerdeFromStr(file.data).programs = procs[LastProc].config
====
